---- MODULE Spec2Model ----
(***************************************************************************)
(* Model of the media player's two player screens.                         *)
(*                                                                         *)
(*   PlayerScreen (src/app/(tabs)/index.tsx): the React state of the video *)
(*   screen, its handlers, the idle-hide timer kept in controlsTimeoutRef, *)
(*   and the expo-av Video element it drives (commands in flight to the    *)
(*   engine, status events in flight from it).                             *)
(*                                                                         *)
(*   AudioScreen (src/app/(tabs)/audio.tsx): the React state of the audio  *)
(*   screen, the in-flight pickAudio / togglePlayPause calls with the      *)
(*   values their closures captured, and the set of loaded sounds.         *)
(*                                                                         *)
(*   LibraryScreen (src/unnamed/part_000): the list of added media files,  *)
(*   the type filter, and the document picker and the confirmation alert   *)
(*   that addMediaFile and removeMediaFile wait for.                       *)
(*                                                                         *)
(* A handler sees the state of the render it was created in: a synchronous *)
(* handler reads the current state, the code after an await keeps the      *)
(* values captured when the handler was called.  Each await is a step.     *)
(***************************************************************************)
EXTENDS Integers, Sequences, FiniteSets, TLC

VARIABLES
  \* ---- PlayerScreen: React state (index.tsx 47-57)
  mounted,             \* the screen is mounted
  status,              \* useState<AVPlaybackStatus>({})
  isPlaying,           \* useState(false)
  currentSpeed,        \* useState('1x')
  videoUri,            \* useState<string | null>(null)
  showControls,        \* useState(true)
  isFullscreen,        \* useState(false)
  currentFileName,     \* useState('')
  controlsTimeoutRef,  \* useRef<NodeJS.Timeout>()
  \* ---- PlayerScreen: environment
  timers,              \* the setTimeout callbacks that are pending
  now,                 \* the clock, in ms
  picking,             \* a pickVideo call awaits the document picker
  engineLoaded,        \* the Video element has loaded its current source
  enginePlaying,       \* the Video element is playing
  events,              \* status events in flight from the engine, oldest first;
                       \* stale: sent for a medium the Video element no longer holds
  cmds,                \* engine commands in flight, oldest first
  \* ---- PlayerScreen: history
  lastReset,           \* time of the last resetControlsTimeout call
  replacedPending,     \* that call cleared a callback scheduled before it, not yet due
  hideRuns,            \* hide callbacks run since the last resetControlsTimeout
  fired,               \* flips whenever a hide callback runs
  lastToggle,          \* the command the last togglePlayPause sent, "none" once a
                       \* status event was delivered or a medium picked after it
  \* ---- AudioScreen: React state (audio.tsx 29-35)
  audioMounted,
  sound,               \* useState<Audio.Sound | null>(null)
  audioIsPlaying,      \* useState(false)
  currentTrack,        \* useState<string | null>(null)
  trackName,           \* useState('')
  duration,            \* useState(0)
  isLoading,           \* useState(false)
  \* ---- AudioScreen: environment
  live,                \* sounds created and not yet unloaded
  soundsMade,          \* number of sounds created so far
  soundsPlaying,       \* sounds that are playing
  calls,               \* pickAudio calls, each with what its closure holds
  toggles,             \* togglePlayPause calls, each with what its closure holds
  sources,             \* the asset each sound was created from
  durationFrom,        \* the sound whose status the duration shown was read from
  \* ---- LibraryScreen: React state (part_000 36-37)
  mediaFiles,          \* useState<MediaFile[]>([])
  selectedType,        \* useState<'all' | 'video' | 'audio'>('all')
  \* ---- LibraryScreen: environment
  libraryClock,        \* what Date.now() returns, in ms
  libraryUi,           \* what is open: nothing, the document picker, or the
                       \* Remove File alert with the id it was opened for
  \* ---- LibraryScreen: history
  picked               \* the assets the last document picker returned

playerVars == <<mounted, status, isPlaying, currentSpeed, videoUri, showControls,
                isFullscreen, currentFileName, controlsTimeoutRef, timers, now,
                picking, engineLoaded, enginePlaying, events, cmds,
                lastReset, replacedPending, hideRuns, fired, lastToggle>>

audioVars == <<audioMounted, sound, audioIsPlaying, currentTrack, trackName,
               duration, isLoading, live, soundsMade, soundsPlaying, calls, toggles,
               sources, durationFrom>>

libraryVars == <<mediaFiles, selectedType, libraryClock, libraryUi, picked>>

vars == <<playerVars, audioVars, libraryVars>>

----------------------------------------------------------------------------
\* Bounds of the model

\* the clock advances in steps of ClockStep ms, MaxTicks times at most
ClockStep == 1500

MaxTicks == 3

\* status events in flight
MaxEvents == 1

\* engine commands in flight
MaxCmds == 1

\* pickAudio calls in flight together
MaxCalls == 2

\* togglePlayPause calls of the audio screen in flight together
MaxToggles == 1

\* sounds created in all
MaxSounds == 3

\* entries the library holds at most
MaxFiles == 3

\* assets one document picker returns at most
MaxPick == 2

\* milliseconds the library's clock advances at most
MaxLibraryTicks == 1

----------------------------------------------------------------------------
\* Values

\* null / undefined
None == "none"

\* undefined or NaN where a number is expected (falsy, like 0)
JsUndefined == 0 - 1

NoTimer == 0

\* what the document picker can hand back: a uri and a name ("" is a missing name)
Assets == {[uri |-> "file:a", name |-> "a.mp4"], [uri |-> "file:b", name |-> ""]}

\* positions and durations the engine may report, in ms
Positions == {5000, 35000}

Durations == {JsUndefined, 20000}

\* x || 0
OrZero(x) == IF x = JsUndefined \/ x = 0 THEN 0 ELSE x

\* name || fallback
OrName(name, fallback) == IF name = "" THEN fallback ELSE name

Max2(a, b) == IF a >= b THEN a ELSE b

Min2(a, b) == IF a <= b THEN a ELSE b

\* 'key' in status
Has(s, key) == key \in s.keys

\* the initial status: {}
EmptyStatus == [keys |-> {}, isLoaded |-> FALSE, isPlaying |-> FALSE,
                positionMillis |-> 0, durationMillis |-> JsUndefined]

\* the status of an engine that holds no loaded medium: {isLoaded: false}
UnloadedStatus == [keys |-> {"isLoaded"}, isLoaded |-> FALSE, isPlaying |-> FALSE,
                   positionMillis |-> 0, durationMillis |-> JsUndefined]

\* the statuses of an engine that holds a loaded medium; durationMillis is optional
LoadedStatuses(playing) ==
  {[keys |-> {"isLoaded", "isPlaying", "positionMillis"}, isLoaded |-> TRUE,
    isPlaying |-> playing, positionMillis |-> p, durationMillis |-> JsUndefined]
     : p \in Positions}
  \cup
  {[keys |-> {"isLoaded", "isPlaying", "positionMillis", "durationMillis"},
    isLoaded |-> TRUE, isPlaying |-> playing, positionMillis |-> p,
    durationMillis |-> d] : p \in Positions, d \in Durations}

----------------------------------------------------------------------------
\* PLAYBACK_SPEEDS (index.tsx 35-44); rates in hundredths

SpeedKeys == <<"0.5x", "0.75x", "1x", "1.25x", "1.5x", "2x", "3x", "4x">>

\* a table whose 4x entry holds the rate of 3x
PlaybackSpeedsFourAsThree ==
  [k \in {SpeedKeys[i] : i \in 1..Len(SpeedKeys)} |->
     CASE k = "0.5x" -> 50 [] k = "0.75x" -> 75 [] k = "1x" -> 100
       [] k = "1.25x" -> 125 [] k = "1.5x" -> 150 [] k = "2x" -> 200
       [] k = "3x" -> 300 [] k = "4x" -> 300]

PLAYBACK_SPEEDS == [k \in {SpeedKeys[i] : i \in 1..Len(SpeedKeys)} |->
                     CASE k = "0.5x" -> 50 [] k = "0.75x" -> 75 [] k = "1x" -> 100
                       [] k = "1.25x" -> 125 [] k = "1.5x" -> 150 [] k = "2x" -> 200
                       [] k = "3x" -> 300 [] k = "4x" -> 400]

\* PLAYBACK_SPEEDS[label]: a property lookup, undefined for a missing key
RateOf(label) ==
  IF label \in DOMAIN PLAYBACK_SPEEDS THEN PLAYBACK_SPEEDS[label] ELSE JsUndefined

\* Array.prototype.indexOf, 0-based, -1 when absent
IndexOf(seq, x) ==
  IF \E i \in 1..Len(seq) : seq[i] = x
  THEN (CHOOSE i \in 1..Len(seq) : seq[i] = x /\ \A j \in 1..(i - 1) : seq[j] # x) - 1
  ELSE 0 - 1

\* a changeSpeed without the remainder: past the last entry speeds[nextIndex]
\* is undefined
NextSpeedPastEnd(cur) ==
  LET speeds == SpeedKeys
      nextIndex == IndexOf(speeds, cur) + 1
  IN IF nextIndex < Len(speeds) THEN speeds[nextIndex + 1] ELSE "undefined"

\* a changeSpeed that wraps one entry early
NextSpeedShortWrap(cur) ==
  LET speeds == SpeedKeys
      currentIndex == IndexOf(speeds, cur)
      nextIndex == (currentIndex + 1) % (Len(speeds) - 1)
  IN speeds[nextIndex + 1]

\* changeSpeed's nextSpeed (index.tsx 113-116)
NextSpeed(cur) ==
  LET speeds == SpeedKeys
      currentIndex == IndexOf(speeds, cur)
      nextIndex == (currentIndex + 1) % Len(speeds)
  IN speeds[nextIndex + 1]

----------------------------------------------------------------------------
\* PlayerScreen: the idle-hide timer (index.tsx 57-72)

\* the delay given to setTimeout (index.tsx 71)
IdleThreshold == 3000

\* a clearTimeout that drops nothing
ClearTimeoutForgotten(pending, id) == pending

\* clearTimeout(id): the pending callback with that id is dropped
ClearTimeout(pending, id) == {t \in pending : t.id # id}

\* setTimeout hands out an id no pending callback has
FreshId(pending) ==
  CHOOSE i \in 1..(Cardinality(pending) + 1) :
    (\A t \in pending : t.id # i) /\ (\A j \in 1..(i - 1) : \E t \in pending : t.id = j)

\* the timer as the component sees it: the pending callbacks and the ref
TimerState == [timers |-> timers, ref |-> controlsTimeoutRef, replaced |-> replacedPending]

\* a resetControlsTimeout that leaves a pending callback in place instead of
\* restarting it
resetControlsTimeoutOnce(tm, playing) ==
  IF \E t \in tm.timers : t.id = tm.ref
  THEN [tm EXCEPT !.replaced = FALSE]
  ELSE [timers |-> tm.timers \cup {[id |-> FreshId(tm.timers),
                                    deadline |-> now + IdleThreshold,
                                    isPlaying |-> playing]},
        ref |-> FreshId(tm.timers),
        replaced |-> FALSE]

\* resetControlsTimeout, called in a render whose isPlaying was `playing`: the
\* callback it schedules reads that isPlaying when it runs.  `replaced` records
\* whether the call cleared a callback that was scheduled earlier and not yet due.
resetControlsTimeout(tm, playing) ==
  LET cleared == IF tm.ref # NoTimer THEN ClearTimeout(tm.timers, tm.ref) ELSE tm.timers
      id == FreshId(cleared)
  IN [timers |-> cleared \cup {[id |-> id, deadline |-> now + IdleThreshold,
                                isPlaying |-> playing]},
      ref |-> id,
      replaced |-> \E t \in tm.timers :
                     t.id = tm.ref /\ now < t.deadline /\ t.deadline < now + IdleThreshold]

\* useEffect(() => resetControlsTimeout(), [showControls]): after a render in
\* which showControls changed, the new render's resetControlsTimeout runs
showControlsEffect(tm, shownBefore, shownAfter, playing) ==
  IF mounted /\ shownAfter # shownBefore THEN resetControlsTimeout(tm, playing) ELSE tm

\* setShowControls(true); resetControlsTimeout(); as written at the end of every
\* control operation, by a closure whose isPlaying is `playing`, and the render
\* that follows.  setState does nothing once the screen is unmounted.
ShowControlsAndReset(playing) ==
  LET tm1 == resetControlsTimeout(TimerState, playing)
      shown == IF mounted THEN TRUE ELSE showControls
      tm2 == showControlsEffect(tm1, showControls, shown, isPlaying)
  IN /\ showControls' = shown
     /\ timers' = tm2.timers
     /\ controlsTimeoutRef' = tm2.ref
     /\ replacedPending' = tm2.replaced
     /\ lastReset' = now
     /\ hideRuns' = 0
     /\ UNCHANGED fired

timerVars == <<showControls, timers, controlsTimeoutRef, lastReset, replacedPending,
               hideRuns, fired>>

----------------------------------------------------------------------------
\* PlayerScreen: what the handlers compute

\* the seek step of both seek buttons (index.tsx 130, 142)
SeekStep == 10000

\* a seekBackward without Math.max
SeekBackwardUnclamped(s) == OrZero(s.positionMillis) - SeekStep

\* seekBackward's newPosition (index.tsx 130)
SeekBackwardTarget(s) == Max2(0, OrZero(s.positionMillis) - SeekStep)

\* seekForward's newPosition (index.tsx 140-143)
SeekForwardTarget(s) == Min2(OrZero(s.durationMillis), OrZero(s.positionMillis) + SeekStep)

\* videoRef.current: the Video element is rendered when videoUri is set
VideoRef == mounted /\ videoUri # None

\* the control buttons are rendered inside {showControls && ...} of the player view
ControlsVisible == mounted /\ videoUri # None /\ showControls

\* a command sent to the Video element by handler `by`; an awaiting handler goes
\* on after it with the isPlaying of the render it was called in
Cmd(op, arg, by, awaited) ==
  [op |-> op, arg |-> arg, by |-> by, awaited |-> awaited, isPlaying |-> isPlaying]

\* onPlaybackStatusUpdate's new isPlaying (index.tsx 173-175)
IsPlayingAfter(playbackStatus, playing) ==
  IF Has(playbackStatus, "isLoaded")
  THEN (Has(playbackStatus, "isPlaying") /\ playbackStatus.isPlaying)
  ELSE playing

----------------------------------------------------------------------------
\* PlayerScreen: state after the first render and its mount effect, which calls
\* resetControlsTimeout once (index.tsx 47-61)

PlayerInit ==
  /\ mounted = TRUE
  /\ status = EmptyStatus
  /\ isPlaying = FALSE
  /\ currentSpeed = "1x"
  /\ videoUri = None
  /\ showControls = TRUE
  /\ isFullscreen = FALSE
  /\ currentFileName = ""
  /\ now = 0
  /\ timers = {[id |-> 1, deadline |-> IdleThreshold, isPlaying |-> FALSE]}
  /\ controlsTimeoutRef = 1
  /\ picking = FALSE
  /\ engineLoaded = FALSE
  /\ enginePlaying = FALSE
  /\ events = <<>>
  /\ cmds = <<>>
  /\ lastReset = 0
  /\ replacedPending = FALSE
  /\ hideRuns = 0
  /\ fired = FALSE
  /\ lastToggle = "none"

----------------------------------------------------------------------------
\* PlayerScreen: pickVideo (index.tsx 80-96)

\* the Select File button is pressed: the document picker opens
pickVideo ==
  /\ mounted
  /\ ~picking
  /\ videoUri = None \/ ~isFullscreen
  /\ picking' = TRUE
  /\ UNCHANGED <<mounted, status, isPlaying, currentSpeed, videoUri, isFullscreen,
                 currentFileName, now, engineLoaded, enginePlaying, events,
                 cmds, timerVars>>
  /\ UNCHANGED <<lastToggle, audioVars, libraryVars>>

\* the picker is cancelled, returns no asset, or throws (the catch shows an alert)
pickVideoNothing ==
  /\ picking
  /\ picking' = FALSE
  /\ UNCHANGED <<mounted, status, isPlaying, currentSpeed, videoUri, isFullscreen,
                 currentFileName, now, engineLoaded, enginePlaying, events,
                 cmds, timerVars>>
  /\ UNCHANGED <<lastToggle, audioVars, libraryVars>>

\* the events in flight when the Video element lets go of its medium
Released(evs) == [i \in 1..Len(evs) |-> [evs[i] EXCEPT !.stale = TRUE]]

\* the picker returns an asset: setVideoUri, setCurrentFileName; the render gives
\* the Video element its new source, which it starts to load
pickVideoAsset(asset) ==
  /\ picking
  /\ picking' = FALSE
  /\ IF mounted
     THEN /\ videoUri' = asset.uri
          /\ currentFileName' = OrName(asset.name, "Unknown")
          /\ IF asset.uri # videoUri
             THEN /\ engineLoaded' = FALSE
                  /\ enginePlaying' = FALSE
                  /\ events' = Released(events)
             ELSE UNCHANGED <<engineLoaded, enginePlaying, events>>
     ELSE UNCHANGED <<videoUri, currentFileName, engineLoaded, enginePlaying, events>>
  /\ UNCHANGED <<mounted, status, isPlaying, currentSpeed, isFullscreen, now,
                 cmds, timerVars>>
  /\ lastToggle' = IF mounted /\ asset.uri # videoUri THEN "none" ELSE lastToggle
  /\ UNCHANGED <<audioVars, libraryVars>>

----------------------------------------------------------------------------
\* PlayerScreen: the control operations (index.tsx 98-169)

\* togglePlayPause up to its await (index.tsx 98-106); without a Video element
\* it runs to its end
togglePlayPause ==
  /\ ControlsVisible
  /\ IF VideoRef
     THEN /\ Len(cmds) < MaxCmds
          /\ cmds' = Append(cmds, Cmd(IF isPlaying THEN "pause" ELSE "play", 0,
                                      "togglePlayPause", TRUE))
          /\ UNCHANGED timerVars
     ELSE /\ ShowControlsAndReset(isPlaying)
          /\ UNCHANGED cmds
  /\ UNCHANGED <<mounted, status, isPlaying, currentSpeed, videoUri, isFullscreen,
                 currentFileName, now, picking, engineLoaded, enginePlaying,
                 events>>
  /\ lastToggle' = IF VideoRef THEN (IF isPlaying THEN "pause" ELSE "play") ELSE lastToggle
  /\ UNCHANGED <<audioVars, libraryVars>>

\* changeSpeed (index.tsx 111-125); setRateAsync is not awaited
changeSpeed ==
  /\ ControlsVisible
  /\ currentSpeed' = NextSpeed(currentSpeed)
  /\ IF VideoRef
     THEN /\ Len(cmds) < MaxCmds
          /\ cmds' = Append(cmds, Cmd("setRate", RateOf(NextSpeed(currentSpeed)),
                                      "changeSpeed", FALSE))
     ELSE UNCHANGED cmds
  /\ ShowControlsAndReset(isPlaying)
  /\ UNCHANGED <<mounted, status, isPlaying, videoUri, isFullscreen, currentFileName,
                 now, picking, engineLoaded, enginePlaying, events>>
  /\ UNCHANGED <<lastToggle, audioVars, libraryVars>>

\* a seekBackward that writes its target into the stored status at once
seekBackwardOptimistic ==
  /\ ControlsVisible
  /\ VideoRef /\ Has(status, "positionMillis")
  /\ Len(cmds) < MaxCmds
  /\ cmds' = Append(cmds, Cmd("setPosition", SeekBackwardTarget(status),
                              "seekBackward", TRUE))
  /\ status' = [status EXCEPT !.positionMillis = SeekBackwardTarget(status)]
  /\ UNCHANGED timerVars
  /\ UNCHANGED <<mounted, isPlaying, currentSpeed, videoUri, isFullscreen,
                 currentFileName, now, picking, engineLoaded, enginePlaying,
                 events>>
  /\ UNCHANGED <<lastToggle, audioVars, libraryVars>>

\* seekBackward up to its await (index.tsx 127-132)
seekBackward ==
  /\ ControlsVisible
  /\ IF VideoRef /\ Has(status, "positionMillis")
     THEN /\ Len(cmds) < MaxCmds
          /\ cmds' = Append(cmds, Cmd("setPosition", SeekBackwardTarget(status),
                                      "seekBackward", TRUE))
          /\ UNCHANGED timerVars
     ELSE /\ ShowControlsAndReset(isPlaying)
          /\ UNCHANGED cmds
  /\ UNCHANGED <<mounted, status, isPlaying, currentSpeed, videoUri, isFullscreen,
                 currentFileName, now, picking, engineLoaded, enginePlaying,
                 events>>
  /\ UNCHANGED <<lastToggle, audioVars, libraryVars>>

\* seekForward up to its await (index.tsx 137-145)
seekForward ==
  /\ ControlsVisible
  /\ IF VideoRef /\ Has(status, "positionMillis") /\ Has(status, "durationMillis")
     THEN /\ Len(cmds) < MaxCmds
          /\ cmds' = Append(cmds, Cmd("setPosition", SeekForwardTarget(status),
                                      "seekForward", TRUE))
          /\ UNCHANGED timerVars
     ELSE /\ ShowControlsAndReset(isPlaying)
          /\ UNCHANGED cmds
  /\ UNCHANGED <<mounted, status, isPlaying, currentSpeed, videoUri, isFullscreen,
                 currentFileName, now, picking, engineLoaded, enginePlaying,
                 events>>
  /\ UNCHANGED <<lastToggle, audioVars, libraryVars>>

\* toggleFullscreen (index.tsx 150-155)
toggleFullscreen ==
  /\ ControlsVisible
  /\ isFullscreen' = ~isFullscreen
  /\ ShowControlsAndReset(isPlaying)
  /\ UNCHANGED <<mounted, status, isPlaying, currentSpeed, videoUri, currentFileName,
                 now, picking, engineLoaded, enginePlaying, events, cmds>>
  /\ UNCHANGED <<lastToggle, audioVars, libraryVars>>

\* handleVideoTap (index.tsx 164-169) and the render that follows: showControls
\* changes, so the showControls effect runs
handleVideoTap ==
  /\ mounted
  /\ videoUri # None
  /\ LET tm1 == IF ~showControls THEN resetControlsTimeout(TimerState, isPlaying)
                ELSE TimerState
         tm2 == showControlsEffect(tm1, showControls, ~showControls, isPlaying)
     IN /\ showControls' = ~showControls
        /\ timers' = tm2.timers
        /\ controlsTimeoutRef' = tm2.ref
        /\ replacedPending' = tm2.replaced
        /\ lastReset' = now
        /\ hideRuns' = 0
  /\ UNCHANGED <<mounted, status, isPlaying, currentSpeed, videoUri, isFullscreen,
                 currentFileName, now, picking, engineLoaded, enginePlaying,
                 events, cmds, fired>>
  /\ UNCHANGED <<lastToggle, audioVars, libraryVars>>

\* the rest of an awaiting handler, once the engine has done its command
\* (index.tsx 107-108, 133-134, 146-147); a command that is not awaited has none
commandResolves ==
  /\ cmds # <<>>
  /\ LET c == Head(cmds)
     IN /\ cmds' = Tail(cmds)
        /\ enginePlaying' = IF ~engineLoaded THEN enginePlaying
                            ELSE IF c.op = "play" THEN TRUE
                            ELSE IF c.op = "pause" THEN FALSE
                            ELSE enginePlaying
        /\ IF c.awaited THEN ShowControlsAndReset(c.isPlaying) ELSE UNCHANGED timerVars
  /\ UNCHANGED <<mounted, status, isPlaying, currentSpeed, videoUri, isFullscreen,
                 currentFileName, now, picking, engineLoaded, events>>
  /\ UNCHANGED <<lastToggle, audioVars, libraryVars>>

\* the engine holds no loaded medium and rejects a command: the awaiting handler
\* ends there, its last two statements never run
commandRejects ==
  /\ cmds # <<>>
  /\ ~engineLoaded
  /\ cmds' = Tail(cmds)
  /\ UNCHANGED <<mounted, status, isPlaying, currentSpeed, videoUri, isFullscreen,
                 currentFileName, now, picking, engineLoaded, enginePlaying,
                 events, timerVars>>
  /\ UNCHANGED <<lastToggle, audioVars, libraryVars>>

----------------------------------------------------------------------------
\* PlayerScreen: timer callbacks, engine events, unmount

\* a pending hide callback runs (index.tsx 67-71): it hides the controls when the
\* isPlaying its closure holds is true; then the render and the showControls effect
hideTimerFires(t) ==
  /\ t \in timers
  /\ now >= t.deadline
  /\ LET shown == IF t.isPlaying /\ mounted THEN FALSE ELSE showControls
         tm2 == showControlsEffect([timers |-> timers \ {t}, ref |-> controlsTimeoutRef,
                                    replaced |-> replacedPending],
                                   showControls, shown, isPlaying)
         reran == mounted /\ shown # showControls
     IN /\ showControls' = shown
        /\ timers' = tm2.timers
        /\ controlsTimeoutRef' = tm2.ref
        /\ fired' = ~fired
        /\ replacedPending' = tm2.replaced
        /\ lastReset' = IF reran THEN now ELSE lastReset
        /\ hideRuns' = IF reran THEN 0 ELSE hideRuns + 1
  /\ UNCHANGED <<mounted, status, isPlaying, currentSpeed, videoUri, isFullscreen,
                 currentFileName, now, picking, engineLoaded, enginePlaying,
                 events, cmds>>
  /\ UNCHANGED <<lastToggle, audioVars, libraryVars>>

\* time passes
tick ==
  /\ now < MaxTicks * ClockStep
  /\ now' = now + ClockStep
  /\ UNCHANGED <<mounted, status, isPlaying, currentSpeed, videoUri, isFullscreen,
                 currentFileName, picking, engineLoaded, enginePlaying, events,
                 cmds, timerVars>>
  /\ UNCHANGED <<lastToggle, audioVars, libraryVars>>

\* the Video element finishes loading its source (index.tsx 208-217)
engineLoads ==
  /\ VideoRef
  /\ ~engineLoaded
  /\ engineLoaded' = TRUE
  /\ UNCHANGED <<mounted, status, isPlaying, currentSpeed, videoUri, isFullscreen,
                 currentFileName, now, picking, enginePlaying, events, cmds,
                 timerVars>>
  /\ UNCHANGED <<lastToggle, audioVars, libraryVars>>

\* playback reaches the end of the medium (isLooping is false, index.tsx 214)
engineFinishes ==
  /\ engineLoaded
  /\ enginePlaying
  /\ enginePlaying' = FALSE
  /\ UNCHANGED <<mounted, status, isPlaying, currentSpeed, videoUri, isFullscreen,
                 currentFileName, now, picking, engineLoaded, events, cmds,
                 timerVars>>
  /\ UNCHANGED <<lastToggle, audioVars, libraryVars>>

\* the statuses the Video element can report now
EngineStatuses == IF engineLoaded THEN LoadedStatuses(enginePlaying) ELSE {UnloadedStatus}

\* the Video element sends a status event for the medium it holds
engineEmits(s) ==
  /\ VideoRef
  /\ s \in EngineStatuses
  /\ Len(events) < MaxEvents
  /\ events' = Append(events, [status |-> s, stale |-> FALSE])
  /\ UNCHANGED <<mounted, status, isPlaying, currentSpeed, videoUri, isFullscreen,
                 currentFileName, now, picking, engineLoaded, enginePlaying,
                 cmds, timerVars>>
  /\ UNCHANGED <<lastToggle, audioVars, libraryVars>>

\* onPlaybackStatusUpdate (index.tsx 171-176) with the oldest event in flight
onPlaybackStatusUpdate ==
  /\ events # <<>>
  /\ events' = Tail(events)
  /\ IF mounted
     THEN /\ status' = Head(events).status
          /\ isPlaying' = IsPlayingAfter(Head(events).status, isPlaying)
     ELSE UNCHANGED <<status, isPlaying>>
  /\ UNCHANGED <<mounted, currentSpeed, videoUri, isFullscreen, currentFileName, now,
                 picking, engineLoaded, enginePlaying, cmds,
                 timerVars>>
  /\ lastToggle' = "none"
  /\ UNCHANGED <<audioVars, libraryVars>>

\* the screen unmounts: the Video element goes, and unloads its medium; the
\* component has no cleanup for its timer (index.tsx 59-61)
unmount ==
  /\ mounted
  /\ mounted' = FALSE
  /\ engineLoaded' = FALSE
  /\ enginePlaying' = FALSE
  /\ events' = Released(events)
  /\ UNCHANGED <<status, isPlaying, currentSpeed, videoUri, isFullscreen,
                 currentFileName, now, picking, cmds, timerVars>>
  /\ UNCHANGED <<lastToggle, audioVars, libraryVars>>

\* loading, playing and seeking, with every status the engine can report; the
\* clock stands still
PlayerStep ==
  \/ pickVideo
  \/ pickVideoNothing
  \/ \E asset \in Assets : pickVideoAsset(asset)
  \/ togglePlayPause
  \/ seekBackward
  \/ seekForward
  \/ handleVideoTap
  \/ commandResolves
  \/ commandRejects
  \/ engineLoads
  \/ engineFinishes
  \/ \E s \in EngineStatuses : engineEmits(s)
  \/ onPlaybackStatusUpdate
  \/ unmount

\* the statuses of one medium whose position and duration stay the same
SteadyStatuses == {s \in EngineStatuses : Has(s, "isPlaying") =>
                     /\ s.positionMillis = 5000
                     /\ Has(s, "durationMillis")
                     /\ s.durationMillis = 20000}

\* every step of the player screen with the clock running, for one medium that
\* reports a steady position
TimedStep ==
  \/ pickVideo
  \/ pickVideoNothing
  \/ \E asset \in {a \in Assets : a.name # ""} : pickVideoAsset(asset)
  \/ togglePlayPause
  \/ changeSpeed
  \/ seekBackward
  \/ seekForward
  \/ toggleFullscreen
  \/ handleVideoTap
  \/ commandResolves
  \/ commandRejects
  \/ \E t \in timers : hideTimerFires(t)
  \/ tick
  \/ engineLoads
  \/ engineFinishes
  \/ \E s \in SteadyStatuses : engineEmits(s)
  \/ onPlaybackStatusUpdate
  \/ unmount

----------------------------------------------------------------------------
\* AudioScreen: state after the first render (audio.tsx 29-35)

\* sound === null
NoSound == 0

NoAsset == [uri |-> None, name |-> ""]

\* a pickAudio call: where it is, the sound its closure holds and whether that
\* sound was loaded when the call began, the asset picked, the sound created
IdleCall == [pc |-> "idle", sound |-> NoSound, loaded |-> FALSE, asset |-> NoAsset,
             newSound |-> NoSound]

IdleToggle == [pc |-> "idle", sound |-> NoSound, isPlaying |-> FALSE]

AudioInit ==
  /\ audioMounted = TRUE
  /\ sound = NoSound
  /\ audioIsPlaying = FALSE
  /\ currentTrack = None
  /\ trackName = ""
  /\ duration = 0
  /\ isLoading = FALSE
  /\ live = {}
  /\ soundsMade = 0
  /\ soundsPlaying = {}
  /\ calls = [c \in 1..MaxCalls |-> IdleCall]
  /\ toggles = [k \in 1..MaxToggles |-> IdleToggle]
  /\ sources = [snd \in 1..MaxSounds |-> NoAsset]
  /\ durationFrom = NoSound

----------------------------------------------------------------------------
\* AudioScreen: pickAudio (audio.tsx 90-124), one step per await

\* sound.unloadAsync(): the sound is released
Unloaded(sounds, snd) == sounds \ {snd}

\* Select Audio File or Change Track is pressed (audio.tsx 91-96): setIsLoading(true)
\* and the document picker opens.  The closure holds the sound of this render.
\* The picker covers the screen, so no button is pressed while one is open.
pickAudio(c) ==
  /\ audioMounted
  /\ calls[c].pc = "idle"
  /\ \A other \in 1..MaxCalls : calls[other].pc # "picker"
  /\ isLoading' = TRUE
  /\ calls' = [calls EXCEPT ![c] = [pc |-> "picker", sound |-> sound,
                                    loaded |-> sound \in live, asset |-> NoAsset,
                                    newSound |-> NoSound]]
  /\ UNCHANGED <<audioMounted, sound, audioIsPlaying, currentTrack, trackName, duration,
                 live, soundsMade, soundsPlaying, toggles>>
  /\ UNCHANGED <<sources, durationFrom, playerVars, libraryVars>>

\* a pickAudio that unloads the sound it holds before it looks at the result
pickAudioCancelUnloads(c) ==
  /\ calls[c].pc = "picker"
  /\ live' = Unloaded(live, calls[c].sound)
  /\ soundsPlaying' = soundsPlaying \ {calls[c].sound}
  /\ isLoading' = IF audioMounted THEN FALSE ELSE isLoading
  /\ calls' = [calls EXCEPT ![c] = IdleCall]
  /\ UNCHANGED <<audioMounted, sound, audioIsPlaying, currentTrack, trackName, duration,
                 soundsMade, toggles>>
  /\ UNCHANGED <<sources, durationFrom, playerVars, libraryVars>>

\* the picker is cancelled, returns no asset or throws: finally setIsLoading(false)
\* (audio.tsx 98, 119-123)
pickAudioNothing(c) ==
  /\ calls[c].pc = "picker"
  /\ isLoading' = IF audioMounted THEN FALSE ELSE isLoading
  /\ calls' = [calls EXCEPT ![c] = IdleCall]
  /\ UNCHANGED <<audioMounted, sound, audioIsPlaying, currentTrack, trackName, duration,
                 live, soundsMade, soundsPlaying, toggles>>
  /\ UNCHANGED <<sources, durationFrom, playerVars, libraryVars>>

\* the picker returns an asset (audio.tsx 98-108): the sound the closure holds is
\* unloaded, or, when it holds none, createAsync is called at once
pickAudioAsset(c, asset) ==
  /\ calls[c].pc = "picker"
  /\ IF calls[c].sound # NoSound
     THEN /\ live' = Unloaded(live, calls[c].sound)
          /\ soundsPlaying' = soundsPlaying \ {calls[c].sound}
          /\ calls' = [calls EXCEPT ![c].pc = "unloading", ![c].asset = asset]
     ELSE /\ calls' = [calls EXCEPT ![c].pc = "creating", ![c].asset = asset]
          /\ UNCHANGED <<live, soundsPlaying>>
  /\ UNCHANGED <<audioMounted, sound, audioIsPlaying, currentTrack, trackName, duration,
                 isLoading, soundsMade, toggles>>
  /\ UNCHANGED <<sources, durationFrom, playerVars, libraryVars>>

\* await sound.unloadAsync() returns; createAsync is called (audio.tsx 102-105)
pickAudioUnloaded(c) ==
  /\ calls[c].pc = "unloading"
  /\ calls' = [calls EXCEPT ![c].pc = "creating"]
  /\ UNCHANGED <<audioMounted, sound, audioIsPlaying, currentTrack, trackName, duration,
                 isLoading, live, soundsMade, soundsPlaying, toggles>>
  /\ UNCHANGED <<sources, durationFrom, playerVars, libraryVars>>

\* the engine has opened the source: the new sound exists (audio.tsx 105-108)
soundCreated(c) ==
  /\ calls[c].pc = "creating"
  /\ soundsMade < MaxSounds
  /\ soundsMade' = soundsMade + 1
  /\ live' = live \cup {soundsMade + 1}
  /\ calls' = [calls EXCEPT ![c].pc = "created", ![c].newSound = soundsMade + 1]
  /\ sources' = [sources EXCEPT ![soundsMade + 1] = calls[c].asset]
  /\ UNCHANGED <<audioMounted, sound, audioIsPlaying, currentTrack, trackName, duration,
                 isLoading, soundsPlaying, toggles>>
  /\ UNCHANGED <<durationFrom, playerVars, libraryVars>>

\* the engine cannot open the source: createAsync rejects, the catch logs, finally
\* setIsLoading(false) (audio.tsx 119-123)
pickAudioFails(c) ==
  /\ calls[c].pc = "creating"
  /\ isLoading' = IF audioMounted THEN FALSE ELSE isLoading
  /\ calls' = [calls EXCEPT ![c] = IdleCall]
  /\ UNCHANGED <<audioMounted, sound, audioIsPlaying, currentTrack, trackName, duration,
                 live, soundsMade, soundsPlaying, toggles>>
  /\ UNCHANGED <<sources, durationFrom, playerVars, libraryVars>>

\* the cleanup of useEffect(..., [sound]) (audio.tsx 41-47): it unloads the sound
\* of the render before, when there was one
soundCleanup(sounds, before) == IF before # NoSound THEN Unloaded(sounds, before) ELSE sounds

\* await createAsync returns (audio.tsx 110-114): setSound, setCurrentTrack,
\* setTrackName, the render with the cleanup of the sound effect, getStatusAsync
pickAudioCreated(c) ==
  /\ calls[c].pc = "created"
  /\ IF audioMounted
     THEN /\ sound' = calls[c].newSound
          /\ currentTrack' = calls[c].asset.uri
          /\ trackName' = OrName(calls[c].asset.name, "Unknown Track")
          /\ live' = soundCleanup(live, sound)
          /\ soundsPlaying' = soundsPlaying \cap soundCleanup(live, sound)
     ELSE UNCHANGED <<sound, currentTrack, trackName, live, soundsPlaying>>
  /\ calls' = [calls EXCEPT ![c].pc = "status"]
  /\ UNCHANGED <<audioMounted, audioIsPlaying, duration, isLoading, soundsMade, toggles>>
  /\ UNCHANGED <<sources, durationFrom, playerVars, libraryVars>>

\* await getStatusAsync returns (audio.tsx 114-123): setDuration when the sound is
\* loaded, then finally setIsLoading(false)
pickAudioStatus(c, d) ==
  /\ calls[c].pc = "status"
  /\ IF audioMounted
     THEN /\ duration' = IF calls[c].newSound \in live THEN OrZero(d) ELSE duration
          /\ durationFrom' = IF calls[c].newSound \in live THEN calls[c].newSound
                                                           ELSE durationFrom
          /\ isLoading' = FALSE
     ELSE UNCHANGED <<duration, durationFrom, isLoading>>
  /\ calls' = [calls EXCEPT ![c] = IdleCall]
  /\ UNCHANGED <<audioMounted, sound, audioIsPlaying, currentTrack, trackName, live,
                 soundsMade, soundsPlaying, toggles>>
  /\ UNCHANGED <<sources, playerVars, libraryVars>>

----------------------------------------------------------------------------
\* AudioScreen: togglePlayPause (audio.tsx 126-138), one step per await

\* the play button is pressed; it is rendered once a track is shown
audioTogglePlayPause(k) ==
  /\ audioMounted
  /\ currentTrack # None
  /\ toggles[k].pc = "idle"
  /\ toggles' = IF sound = NoSound THEN toggles
                ELSE [toggles EXCEPT ![k] = [pc |-> "status", sound |-> sound,
                                             isPlaying |-> audioIsPlaying]]
  /\ UNCHANGED <<audioMounted, sound, audioIsPlaying, currentTrack, trackName, duration,
                 isLoading, live, soundsMade, soundsPlaying, calls>>
  /\ UNCHANGED <<sources, durationFrom, playerVars, libraryVars>>

\* await getStatusAsync returns: pauseAsync or playAsync is called when the sound
\* is loaded, else the call ends
audioToggleStatus(k) ==
  /\ toggles[k].pc = "status"
  /\ toggles' = IF toggles[k].sound \in live
                THEN [toggles EXCEPT ![k].pc = IF toggles[k].isPlaying THEN "pause"
                                               ELSE "play"]
                ELSE [toggles EXCEPT ![k] = IdleToggle]
  /\ UNCHANGED <<audioMounted, sound, audioIsPlaying, currentTrack, trackName, duration,
                 isLoading, live, soundsMade, soundsPlaying, calls>>
  /\ UNCHANGED <<sources, durationFrom, playerVars, libraryVars>>

\* await pauseAsync / playAsync returns: setIsPlaying(!isPlaying) with the
\* isPlaying of the closure; a sound unloaded meanwhile rejects and the call ends
audioToggleDone(k) ==
  /\ toggles[k].pc \in {"play", "pause"}
  /\ IF toggles[k].sound \in live
     THEN /\ soundsPlaying' = IF toggles[k].pc = "play" THEN soundsPlaying \cup {toggles[k].sound}
                        ELSE soundsPlaying \ {toggles[k].sound}
          /\ audioIsPlaying' = IF audioMounted THEN ~toggles[k].isPlaying
                               ELSE audioIsPlaying
     ELSE UNCHANGED <<soundsPlaying, audioIsPlaying>>
  /\ toggles' = [toggles EXCEPT ![k] = IdleToggle]
  /\ UNCHANGED <<audioMounted, sound, currentTrack, trackName, duration, isLoading,
                 live, soundsMade, calls>>
  /\ UNCHANGED <<sources, durationFrom, playerVars, libraryVars>>

\* a soundsPlaying sound reaches its end
soundFinishes(snd) ==
  /\ snd \in soundsPlaying
  /\ soundsPlaying' = soundsPlaying \ {snd}
  /\ UNCHANGED <<audioMounted, sound, audioIsPlaying, currentTrack, trackName, duration,
                 isLoading, live, soundsMade, calls, toggles>>
  /\ UNCHANGED <<sources, durationFrom, playerVars, libraryVars>>

\* the screen unmounts: the cleanup of the sound effect runs (audio.tsx 41-47)
audioUnmount ==
  /\ audioMounted
  /\ audioMounted' = FALSE
  /\ live' = soundCleanup(live, sound)
  /\ soundsPlaying' = soundsPlaying \cap soundCleanup(live, sound)
  /\ UNCHANGED <<sound, audioIsPlaying, currentTrack, trackName, duration, isLoading,
                 soundsMade, calls, toggles>>
  /\ UNCHANGED <<sources, durationFrom, playerVars, libraryVars>>

AudioStep ==
  \/ \E c \in 1..MaxCalls : pickAudio(c)
  \/ \E c \in 1..MaxCalls : pickAudioNothing(c)
  \/ \E c \in 1..MaxCalls, asset \in Assets : pickAudioAsset(c, asset)
  \/ \E c \in 1..MaxCalls : pickAudioUnloaded(c)
  \/ \E c \in 1..MaxCalls : soundCreated(c)
  \/ \E c \in 1..MaxCalls : pickAudioFails(c)
  \/ \E c \in 1..MaxCalls : pickAudioCreated(c)
  \/ \E c \in 1..MaxCalls, d \in Durations : pickAudioStatus(c, d)
  \/ \E k \in 1..MaxToggles : audioTogglePlayPause(k)
  \/ \E k \in 1..MaxToggles : audioToggleStatus(k)
  \/ \E k \in 1..MaxToggles : audioToggleDone(k)
  \/ \E snd \in soundsPlaying : soundFinishes(snd)
  \/ audioUnmount

----------------------------------------------------------------------------
\* LibraryScreen: values (part_000 24-37, 58-65)

\* a mime type as its characters, or the mimeType the picker left out
Mime(chars) == [present |-> TRUE, chars |-> chars]

NoMime == [present |-> FALSE, chars |-> <<>>]

\* the assets the document picker can return: name, uri, mimeType, size
LibraryAssets ==
  { [name |-> "a.mp4", uri |-> "file:a", size |-> 10,
     mimeType |-> Mime(<<"v", "i", "d", "e", "o", "/", "m", "p", "4">>)],
    [name |-> "b.mp3", uri |-> "file:b", size |-> 20,
     mimeType |-> Mime(<<"a", "u", "d", "i", "o", "/", "m", "p", "e", "g">>)],
    [name |-> "", uri |-> "file:c", size |-> 0, mimeType |-> NoMime],
    [name |-> "d", uri |-> "file:d", size |-> 30,
     mimeType |-> Mime(<<"v", "i", "d", "e", "o">>)] }

\* result.assets: the sequences of up to MaxPick assets
Picks == UNION {[1..n -> LibraryAssets] : n \in 0..MaxPick}

\* String.prototype.startsWith
StartsWith(chars, prefix) ==
  /\ Len(chars) >= Len(prefix)
  /\ \A i \in 1..Len(prefix) : chars[i] = prefix[i]

\* a type that calls every file a video unless its mime type says audio
TypeOfUnlessAudio(mimeType) ==
  IF mimeType.present /\ StartsWith(mimeType.chars, <<"a", "u", "d", "i", "o", "/">>)
  THEN "audio" ELSE "video"

\* asset.mimeType?.startsWith('video/') ? 'video' : 'audio' (part_000 62)
TypeOf(mimeType) ==
  IF mimeType.present /\ StartsWith(mimeType.chars, <<"v", "i", "d", "e", "o", "/">>)
  THEN "video" ELSE "audio"

\* `${Date.now()}-${index}` (part_000 59): the clock reading and the 0-based
\* index, which the string keeps apart with its dash
FileId(ms, index) == <<ms, index>>

\* the MediaFile made of the asset at 0-based position index (part_000 58-65)
NewFile(asset, index) ==
  [id |-> FileId(libraryClock, index),
   name |-> OrName(asset.name, "Unknown"),
   uri |-> asset.uri,
   type |-> TypeOf(asset.mimeType),
   size |-> OrZero(asset.size),
   addedAt |-> libraryClock]

\* result.assets.map(...) (part_000 58-65)
NewFiles(assets) == [i \in 1..Len(assets) |-> NewFile(assets[i], i - 1)]

\* an add that puts the new files in front
PrependFiles(prev, newFiles) == newFiles \o prev

\* [...prev, ...newFiles] (part_000 67)
AppendFiles(prev, newFiles) == prev \o newFiles

\* prev.filter(file => file.id !== id) (part_000 84)
WithoutId(prev, id) == SelectSeq(prev, LAMBDA file : file.id # id)

\* a filter that shows every file whatever type is selected
FilterIgnoringType(files, type) == files

\* mediaFiles.filter(...) of filteredFiles (part_000 99-102)
FilterFiles(files, type) ==
  SelectSeq(files, LAMBDA file : IF type = "all" THEN TRUE ELSE file.type = type)

\* the list shown: filteredFiles of this render
filteredFiles == FilterFiles(mediaFiles, selectedType)

\* a count taken from the list shown instead of the whole library
CountShown(files, type) ==
  Len(SelectSeq(FilterFiles(files, selectedType), LAMBDA f : f.type = type))

\* mediaFiles.filter(f => f.type === type).length (part_000 195, 219, 225)
CountOf(files, type) == Len(SelectSeq(files, LAMBDA f : f.type = type))

\* the counts this render shows on the filter tabs and in the stats bar
shownCount == [type \in {"video", "audio"} |-> CountOf(mediaFiles, type)]

LibraryIdle == [mode |-> "idle", id |-> <<>>]

\* the first render and the effect that calls loadSavedFiles (part_000 36-47)
LibraryInit ==
  /\ mediaFiles = <<>>
  /\ selectedType = "all"
  /\ libraryClock = 0
  /\ libraryUi = LibraryIdle
  /\ picked = <<>>

----------------------------------------------------------------------------
\* LibraryScreen: handlers (part_000 49-89, 184)

\* a + or Add Files button is pressed (part_000 49-55): the document picker opens
addMediaFile ==
  /\ libraryUi.mode = "idle"
  /\ libraryUi' = [mode |-> "picking", id |-> <<>>]
  /\ UNCHANGED <<mediaFiles, selectedType, libraryClock, picked>>
  /\ UNCHANGED <<playerVars, audioVars>>

\* the picker is cancelled or throws (part_000 57, 69-71): nothing is added
addMediaFileNothing ==
  /\ libraryUi.mode = "picking"
  /\ libraryUi' = LibraryIdle
  /\ picked' = <<>>
  /\ UNCHANGED <<mediaFiles, selectedType, libraryClock>>
  /\ UNCHANGED <<playerVars, audioVars>>

\* the picker returns assets (part_000 57-67): a MediaFile is made of each and
\* setMediaFiles appends them to the files of the moment
addMediaFileAssets(assets) ==
  /\ libraryUi.mode = "picking"
  /\ Len(mediaFiles) + Len(assets) <= MaxFiles
  /\ libraryUi' = LibraryIdle
  /\ picked' = assets
  /\ mediaFiles' = AppendFiles(mediaFiles, NewFiles(assets))
  /\ UNCHANGED <<selectedType, libraryClock>>
  /\ UNCHANGED <<playerVars, audioVars>>

\* the button of a file in the list is pressed (part_000 74-88, 133): the Remove
\* File alert opens for that file's id
removeMediaFile(id) ==
  /\ libraryUi.mode = "idle"
  /\ \E i \in 1..Len(filteredFiles) : filteredFiles[i].id = id
  /\ libraryUi' = [mode |-> "confirm", id |-> id]
  /\ UNCHANGED <<mediaFiles, selectedType, libraryClock, picked>>
  /\ UNCHANGED <<playerVars, audioVars>>

\* Cancel is pressed in the alert (part_000 79)
removeCancelled ==
  /\ libraryUi.mode = "confirm"
  /\ libraryUi' = LibraryIdle
  /\ UNCHANGED <<mediaFiles, selectedType, libraryClock, picked>>
  /\ UNCHANGED <<playerVars, audioVars>>

\* Remove is pressed in the alert (part_000 80-85)
removeConfirmed ==
  /\ libraryUi.mode = "confirm"
  /\ libraryUi' = LibraryIdle
  /\ mediaFiles' = WithoutId(mediaFiles, libraryUi.id)
  /\ UNCHANGED <<selectedType, libraryClock, picked>>
  /\ UNCHANGED <<playerVars, audioVars>>

\* a filter tab is pressed (part_000 177-184)
setSelectedType(type) ==
  /\ libraryUi.mode = "idle"
  /\ type # selectedType
  /\ selectedType' = type
  /\ UNCHANGED <<mediaFiles, libraryClock, libraryUi, picked>>
  /\ UNCHANGED <<playerVars, audioVars>>

\* a millisecond passes
libraryTick ==
  /\ libraryClock < MaxLibraryTicks
  /\ libraryClock' = libraryClock + 1
  /\ UNCHANGED <<mediaFiles, selectedType, libraryUi, picked>>
  /\ UNCHANGED <<playerVars, audioVars>>

LibraryStep ==
  \/ addMediaFile
  \/ addMediaFileNothing
  \/ \E assets \in Picks : addMediaFileAssets(assets)
  \/ \E id \in {mediaFiles[i].id : i \in 1..Len(mediaFiles)} : removeMediaFile(id)
  \/ removeCancelled
  \/ removeConfirmed
  \/ \E type \in {"all", "video", "audio"} : setSelectedType(type)
  \/ libraryTick

----------------------------------------------------------------------------
\* The player screen on its own

Init == PlayerInit /\ AudioInit /\ LibraryInit

Next == PlayerStep

Spec == Init /\ [][Next]_vars

\* The player screen with its idle-hide timer running

TimerNext == TimedStep

SpecTimer == Init /\ [][TimerNext]_vars

\* The audio screen on its own

AudioNext == AudioStep

SpecAudio == Init /\ [][AudioNext]_vars

\* The library screen on its own

LibraryNext == LibraryStep

SpecLibrary == Init /\ [][LibraryNext]_vars

\* The player, audio and library screens of the tab bar, one of them in use

ScreensNext ==
  \/ AudioInit /\ LibraryInit /\ PlayerStep
  \/ PlayerInit /\ LibraryInit /\ AudioStep
  \/ PlayerInit /\ AudioInit /\ LibraryStep

SpecScreens == Init /\ [][ScreensNext]_vars

----------------------------------------------------------------------------
\* Properties

\* the commands a step sends to the Video element
Issued == IF Len(cmds') > Len(cmds) THEN {cmds'[Len(cmds')]} ELSE {}

\* the status carries a duration that is a number above 0
KnownDuration(s) ==
  Has(s, "durationMillis") /\ s.durationMillis # JsUndefined /\ s.durationMillis > 0

\* the status says a medium is loaded
Loaded(s) == Has(s, "isLoaded") /\ s.isLoaded

Clamp(x, lo, hi) == Max2(lo, Min2(x, hi))

\* C1: every seek target sent to the engine lies in [0, durationMillis] whenever
\* the latest status carries a known duration, whatever position it reports.
\* Fails: seekBackward takes no upper bound, so a reported position more than
\* SeekStep beyond the duration gives a target beyond the duration.
SeekTargetWithinDuration ==
  [][\A c \in Issued :
        c.op = "setPosition" /\ KnownDuration(status)
          => 0 <= c.arg /\ c.arg <= status.durationMillis]_vars

\* C2: a status event of a medium the Video element has let go of, delivered
\* late, changes neither status nor isPlaying.
\* Fails: onPlaybackStatusUpdate applies every event it is given.
StaleEventIgnored ==
  [][events # <<>> /\ events' = Tail(events) /\ Head(events).stale
        => UNCHANGED <<status, isPlaying>>]_vars

\* C3: the audio screen never has two sounds that are created and not unloaded.
\* Fails: a pickAudio call unloads the sound its closure holds, not the sound an
\* overlapping call has set since.
AtMostOneLiveSound == Cardinality(live) <= 1

\* a step in which call c ends because the source could not be opened
LoadFails(c) == calls[c].pc = "creating" /\ calls'[c].pc = "idle"

\* C4: when a load fails because the source cannot be opened, the sound that was
\* loaded before the call is still loaded, and the sound, track, name, duration
\* and play flag are as before.
\* Fails: pickAudio unloads the old sound before it opens the new source.
FailedLoadKeepsSession ==
  [][\A c \in 1..MaxCalls :
        LoadFails(c) => /\ calls[c].loaded => calls[c].sound \in live'
                        /\ UNCHANGED <<sound, currentTrack, trackName, duration,
                                       audioIsPlaying>>]_vars

\* C5: while no loaded medium is reported, togglePlayPause sends no play or pause
\* command and leaves status and isPlaying as they are.
\* Fails: the player screen tests videoRef.current only, so a toggle between
\* pickVideo and the first loaded status sends playAsync.
NoPlayCommandUnlessLoaded ==
  [][togglePlayPause /\ ~Loaded(status) => UNCHANGED <<status, isPlaying, cmds>>]_vars

\* the label after `label` in the fixed table, the last followed by the first
SpeedAfter(label) ==
  CASE label = "0.5x" -> "0.75x" [] label = "0.75x" -> "1x" [] label = "1x" -> "1.25x"
    [] label = "1.25x" -> "1.5x" [] label = "1.5x" -> "2x" [] label = "2x" -> "3x"
    [] label = "3x" -> "4x" [] label = "4x" -> "0.5x"

\* C6: every changeSpeed call moves the speed label one place on in the fixed
\* table, from the last entry to the first; nothing else changes the label.
SpeedAdvancesByOne ==
  [][(currentSpeed' # currentSpeed \/ \E c \in Issued : c.op = "setRate")
        => currentSpeed' = SpeedAfter(currentSpeed)]_vars

\* C6 witness: the label has wrapped from 4x to 0.5x and its rate was sent
SpeedWrapped ==
  currentSpeed = "0.5x" /\ \E i \in 1..Len(cmds) : cmds[i].op = "setRate" /\ cmds[i].arg = 50

\* C7: at most one hide callback is pending at any time.
AtMostOnePendingHide == Cardinality(timers) <= 1

\* C7 witness: a hide was scheduled while an earlier one was pending, and one is
\* pending now
RescheduledWhilePending == replacedPending /\ Cardinality(timers) = 1

\* C8: a hide callback runs only when IdleThreshold ms have passed since the last
\* resetControlsTimeout call, it is the callback that call scheduled, and it is
\* the first to run since that call.
HideOnlyAfterLastTouch ==
  [][fired' # fired
        => /\ now >= lastReset + IdleThreshold
           /\ hideRuns = 0
           /\ \A t \in timers : /\ t.id = controlsTimeoutRef
                               /\ t.deadline = lastReset + IdleThreshold]_vars

\* C8 witness: the timer was touched again before the first hide was due, and one
\* callback has run since
HideRanAfterSecondTouch == replacedPending /\ hideRuns = 1

\* C9: a backward seek at position p sends max(0, p - 10000), never a negative
\* target.
BackwardSeekTarget ==
  [][\A c \in Issued :
        c.by = "seekBackward"
          => /\ c.arg >= 0
             /\ c.arg = IF status.positionMillis >= SeekStep
                        THEN status.positionMillis - SeekStep ELSE 0]_vars

\* C9 witness: a backward seek at 5000 ms is in flight with target 0
BackwardSeekAtFiveSeconds ==
  /\ Has(status, "positionMillis")
  /\ status.positionMillis = 5000
  /\ \E i \in 1..Len(cmds) : cmds[i].by = "seekBackward" /\ cmds[i].arg = 0

\* C10: a forward seek sends clamp(position + 10000, 0, duration), with the
\* current position as upper bound when the duration is unknown.
\* Fails: seekForward takes durationMillis || 0 as upper bound, so with a
\* duration that is not a number it sends 0.
ForwardSeekTarget ==
  [][\A c \in Issued :
        c.by = "seekForward"
          => c.arg = Clamp(status.positionMillis + SeekStep, 0,
                           IF KnownDuration(status) THEN status.durationMillis
                           ELSE status.positionMillis)]_vars

\* C11: a pickVideo that gives the screen a new medium leaves the session reset:
\* isPlaying false, position 0, no known duration, speed label 1x.
\* Fails: pickVideo sets videoUri and currentFileName only; status, isPlaying and
\* currentSpeed stay those of the medium before.
LoadResetsSession ==
  [][picking /\ ~picking' /\ videoUri' # videoUri
        => /\ ~isPlaying'
           /\ OrZero(status'.positionMillis) = 0
           /\ ~KnownDuration(status')
           /\ currentSpeed' = "1x"]_vars

\* no pickAudio call is between its first and its last statement
NoLoadInProgress == \A c \in 1..MaxCalls : calls[c].pc = "idle"

\* C12: every sound created by a load is released when a later load replaces it
\* or when the screen unmounts: once no load is in progress, the only sound
\* still loaded is the one the mounted screen holds.
\* Fails: a createAsync that resolves after the screen has unmounted creates a
\* sound that setSound never stores, so no cleanup ever unloads it.
NoSoundLeftBehind ==
  NoLoadInProgress => \A snd \in live : audioMounted /\ snd = sound

\* C13: no two entries of the library have the same id.
\* Fails: the id is the clock reading and the position in one picker result, so
\* two picker results read at the same millisecond both hold an id with index 0.
UniqueIds ==
  \A i, j \in 1..Len(mediaFiles) : i # j => mediaFiles[i].id # mediaFiles[j].id

\* a step in which an addMediaFile call ends
AddEnds == libraryUi.mode = "picking" /\ libraryUi'.mode = "idle"

\* C14: addMediaFile leaves the old files as they are, in their places, and puts
\* one file for each picked asset after them, in the order of the assets.
AddAppendsInOrder ==
  [][AddEnds
       => /\ Len(mediaFiles') = Len(mediaFiles) + Len(picked')
          /\ SubSeq(mediaFiles', 1, Len(mediaFiles)) = mediaFiles
          /\ \A i \in 1..Len(picked') :
                /\ mediaFiles'[Len(mediaFiles) + i].uri = picked'[i].uri
                /\ mediaFiles'[Len(mediaFiles) + i].name =
                     (IF picked'[i].name = "" THEN "Unknown" ELSE picked'[i].name)]_vars

\* C14 witness: two assets were picked at once and stand, in their order, after
\* a file that was there before
TwoAppendedAfterOne ==
  /\ Len(picked) = 2
  /\ picked[1].uri # picked[2].uri
  /\ Len(mediaFiles) = 3
  /\ mediaFiles[1].id[1] < mediaFiles[2].id[1]
  /\ mediaFiles[2].uri = picked[1].uri
  /\ mediaFiles[3].uri = picked[2].uri

\* files without the one at position i
RemoveAt(files, i) == SubSeq(files, 1, i - 1) \o SubSeq(files, i + 1, Len(files))

\* C15: the Remove File alert takes at most one file out, the one with the id it
\* was opened for, and leaves the others as they are, in their places.
\* Fails: every file with that id goes, and two files can have the same id.
RemoveDeletesAtMostOne ==
  [][libraryUi.mode = "confirm" /\ libraryUi'.mode = "idle"
       => \/ mediaFiles' = mediaFiles
          \/ \E i \in 1..Len(mediaFiles) :
                /\ mediaFiles[i].id = libraryUi.id
                /\ mediaFiles' = RemoveAt(mediaFiles, i)]_vars

\* the places of the files of a type, and the place of the n-th of them
PlacesOf(type) ==
  {i \in 1..Len(mediaFiles) : type = "all" \/ mediaFiles[i].type = type}

NthPlaceOf(type, n) ==
  CHOOSE i \in PlacesOf(type) : Cardinality({k \in PlacesOf(type) : k <= i}) = n

\* C16: the list shown holds exactly the files of the selected type, in the
\* order they were added, every file when "all" is selected; selecting a type
\* leaves the library as it is.
FilterIsOrderedView ==
  /\ [](/\ Len(filteredFiles) = Cardinality(PlacesOf(selectedType))
        /\ \A n \in 1..Len(filteredFiles) :
              filteredFiles[n] = mediaFiles[NthPlaceOf(selectedType, n)]
        /\ selectedType = "all" => filteredFiles = mediaFiles)
  /\ [][selectedType' # selectedType => mediaFiles' = mediaFiles]_vars

\* C16 witness: a.mp4 and b.mp3 are in the library, video is selected and the
\* list shows a.mp4 alone
VideoTabShowsVideoOnly ==
  /\ Len(mediaFiles) = 2
  /\ mediaFiles[1].name = "a.mp4" /\ mediaFiles[2].name = "b.mp3"
  /\ selectedType = "video"
  /\ Len(filteredFiles) = 1
  /\ filteredFiles[1].name = "a.mp4"

\* C17: the count shown for a type is the number of files of that type, and the
\* two counts add up to the number of files.
CountsMatchLibrary ==
  /\ \A type \in {"video", "audio"} :
       shownCount[type] = Cardinality({i \in 1..Len(mediaFiles) : mediaFiles[i].type = type})
  /\ shownCount["video"] + shownCount["audio"] = Len(mediaFiles)

\* C17 witness: files were added and the first of a picker result was removed;
\* a video and an audio file are left while the audio tab is selected
CountsAfterAddAndRemove ==
  /\ shownCount["video"] >= 1
  /\ shownCount["audio"] >= 1
  /\ selectedType = "audio"
  /\ \E i \in 1..Len(mediaFiles) :
       /\ mediaFiles[i].id[2] = 1
       /\ \A j \in 1..Len(mediaFiles) : mediaFiles[j].id # <<mediaFiles[i].id[1], 0>>

\* the mime type is there and its first six characters are video/
IsVideoMime(mimeType) ==
  /\ mimeType.present
  /\ Len(mimeType.chars) >= 6
  /\ SubSeq(mimeType.chars, 1, 6) = <<"v", "i", "d", "e", "o", "/">>

\* C18: an added file is a video exactly when its mime type starts with video/;
\* any other file, one without a mime type too, is audio.
ClassifiedByMimePrefix ==
  [][AddEnds
       => \A i \in 1..Len(picked') :
            mediaFiles'[Len(mediaFiles) + i].type =
              (IF IsVideoMime(picked'[i].mimeType) THEN "video" ELSE "audio")]_vars

\* C18 witness: an asset without a mime type and a video/mp4 asset were picked at
\* once; the first is in the library as audio, the second as video
NoMimeIsAudio ==
  /\ Len(picked) = 2
  /\ ~picked[1].mimeType.present
  /\ IsVideoMime(picked[2].mimeType)
  /\ Len(mediaFiles) = 2
  /\ mediaFiles[1].uri = picked[1].uri /\ mediaFiles[1].type = "audio"
  /\ mediaFiles[2].uri = picked[2].uri /\ mediaFiles[2].type = "video"

\* a step in which a hide callback runs and takes the controls away
TimerHides == fired' # fired /\ showControls /\ ~showControls'

\* C19: while playback is not active the idle timer never hides the controls.
\* Fails: the callback tests the isPlaying of the render that scheduled it; the
\* resetControlsTimeout at the end of a pausing togglePlayPause is the one of
\* the render in which playback was active, and a pause arms no new callback.
NoHideWhilePaused ==
  [][TimerHides => isPlaying \/ enginePlaying]_vars

\* C20: once playback is active with the controls shown, the controls are hidden
\* in the end when no interaction follows: with nothing in flight, a callback
\* that will hide them is pending.
\* Fails: the callback armed by the togglePlayPause that starts playback holds
\* isPlaying = false, and the status event that sets isPlaying arms none.
HidePendingWhilePlaying ==
  (mounted /\ isPlaying /\ enginePlaying /\ showControls /\ cmds = <<>> /\ events = <<>>)
    => \E t \in timers : t.isPlaying

\* a step in which a control operation that awaited its engine command ends
OperationEnds == cmds # <<>> /\ cmds' = Tail(cmds) /\ Head(cmds).awaited

\* C21: a control operation ends with the controls shown and a hide callback
\* due one idle threshold from now, whether its engine command succeeded or not.
\* Fails: the awaiting handlers have no catch, so when the command is rejected
\* setShowControls(true) and resetControlsTimeout() never run.
OperationEndsWithTimerRestarted ==
  [][OperationEnds /\ mounted
       => /\ showControls'
          /\ \E t \in timers' : /\ t.id = controlsTimeoutRef'
                                /\ t.deadline = now + IdleThreshold]_vars

\* C22: on a loaded session a togglePlayPause sends the other command than the
\* togglePlayPause before it, also when no status event was delivered between.
\* Fails: the handler reads isPlaying, which only a status event changes, so a
\* second press before that event sends the same command again.
TogglesAlternate ==
  [][\A c \in Issued :
        c.by = "togglePlayPause" /\ Loaded(status) /\ lastToggle # "none"
          => c.op # lastToggle]_vars

\* no togglePlayPause call of the audio screen is between two of its statements
NoToggleInProgress == \A k \in 1..MaxToggles : toggles[k].pc = "idle"

\* C23: a play flag that differs from what the engine does is put right without
\* the user: once no call is in progress, isPlaying of the audio screen says
\* whether its sound is playing.
\* Fails: the audio screen registers no status callback; when the sound reaches
\* its end the flag stays true, and only togglePlayPause ever writes it.
AudioFlagFollowsSound ==
  (audioMounted /\ NoLoadInProgress /\ NoToggleInProgress)
    => (audioIsPlaying <=> sound \in soundsPlaying)

\* C24: in every state with a known duration the stored position is at most the
\* stored duration.
\* Fails: onPlaybackStatusUpdate stores the event as it comes.
StoredPositionWithinDuration ==
  KnownDuration(status) /\ Has(status, "positionMillis")
    => status.positionMillis <= status.durationMillis

\* C25: status and isPlaying change only in a step that delivers a status event;
\* seekBackward, seekForward, changeSpeed, toggleFullscreen and a video tap leave
\* both as they are.
StatusWrittenByEventsOnly ==
  [][(status' # status \/ isPlaying' # isPlaying)
       => events # <<>> /\ events' = Tail(events)]_vars

\* C25 witness: with a loaded status stored, a seek is in flight, the speed has
\* been changed and the screen is in fullscreen
SeekSentSpeedChangedFullscreen ==
  /\ Loaded(status)
  /\ \E i \in 1..Len(cmds) : cmds[i].op = "setPosition"
  /\ currentSpeed # "1x"
  /\ isFullscreen

\* C26: a seek command is sent only when the stored status says loaded and it is
\* the status of the medium the Video element has loaded; not between a pick
\* that replaces the medium and the first status of the new one.
\* Fails: the handlers test 'positionMillis' in status, and pickVideo leaves the
\* status of the medium before in place.
SeekOnlyWhenLoaded ==
  [][\A c \in Issued :
        c.op = "setPosition" => Loaded(status) /\ engineLoaded]_vars

\* the rate, in hundredths, that the fixed table gives a label
RateOfLabel(label) ==
  CASE label = "0.5x" -> 50 [] label = "0.75x" -> 75 [] label = "1x" -> 100
    [] label = "1.25x" -> 125 [] label = "1.5x" -> 150 [] label = "2x" -> 200
    [] label = "3x" -> 300 [] label = "4x" -> 400

\* C27: every changeSpeed call changes the label; a rate command is sent only
\* to a Video element that exists, and it carries the table rate of the label
\* shown after the call.
RateSentMatchesLabel ==
  [][\A c \in Issued :
        c.op = "setRate"
          => /\ VideoRef
             /\ currentSpeed' # currentSpeed
             /\ c.arg = RateOfLabel(currentSpeed')]_vars

\* C27 witness: the label shows 4x and the rate 4.0 is on its way to the engine
FourTimesRateSent ==
  /\ currentSpeed = "4x"
  /\ \E i \in 1..Len(cmds) : cmds[i].op = "setRate" /\ cmds[i].arg = 400

\* C28: the speed label is always one of the eight labels of the table.
SpeedLabelInTable ==
  currentSpeed \in {"0.5x", "0.75x", "1x", "1.25x", "1.5x", "2x", "3x", "4x"}

\* C28 witness: changeSpeed has been called at the last entry and again after it,
\* and the label shows the second entry
SpeedPastWrap ==
  /\ currentSpeed = "0.75x"
  /\ \E i \in 1..Len(cmds) : cmds[i].by = "changeSpeed" /\ cmds[i].arg = 75

\* C29: a picker that is cancelled, returns no asset or throws changes nothing:
\* pickVideo leaves the media URI, the file name, the status and the speed as they
\* were; pickAudio leaves the sound, the track, its name, the duration and the
\* play flag as they were and unloads no sound; addMediaFile leaves the catalog
\* as it was.
CancelledPickChangesNothing ==
  /\ [][pickVideoNothing
          => UNCHANGED <<videoUri, currentFileName, status, currentSpeed>>]_vars
  /\ [][\A c \in 1..MaxCalls :
          calls[c].pc = "picker" /\ calls'[c].pc = "idle"
            => UNCHANGED <<sound, currentTrack, trackName, duration, audioIsPlaying,
                           live, soundsPlaying>>]_vars
  /\ [][AddEnds /\ picked' = <<>> => mediaFiles' = mediaFiles]_vars

\* C29 witness: Change Track is pressed over a sound that plays and the picker is
\* open, to be cancelled
PickerOpenOverPlayingSound ==
  /\ \E c \in 1..MaxCalls : calls[c].pc = "picker" /\ calls[c].sound = sound
  /\ sound \in live
  /\ sound \in soundsPlaying
  /\ audioIsPlaying
  /\ currentTrack # None

\* C30: once no load is in progress, the track, the name and the duration shown
\* are those of the sound the screen holds, however overlapping pickAudio calls
\* interleave.
MetadataBelongsToSound ==
  (audioMounted /\ NoLoadInProgress /\ sound # NoSound)
    => /\ currentTrack = sources[sound].uri
       /\ trackName = OrName(sources[sound].name, "Unknown Track")
       /\ durationFrom # NoSound => sources[durationFrom] = sources[sound]

\* C31: isLoading is true exactly while some pickAudio call is in flight: set when
\* a call starts, false once every call has ended, and never false while an
\* overlapping call still runs.
LoadingWhileCallInFlight ==
  audioMounted => (isLoading <=> ~NoLoadInProgress)

\* C32: no hide callback runs once the player screen has unmounted.
NoHideCallbackAfterUnmount ==
  [][fired' # fired => mounted]_vars

====
